---- MODULE Spec2Model ----
(***************************************************************************)
(* Model of src/app.py: the parametric solid pipeline                      *)
(*   create_3d_module_from_image -> split_module -> export_stl_modules.    *)
(*                                                                         *)
(* A solid is the set of grid cells it occupies.  A cell <<x, y, z>> is    *)
(* the 2mm x 2mm x 1mm brick centred horizontally on (x, y) (x, y odd)     *)
(* that spans [z, z+1] vertically.  All lengths are millimetres, as in the *)
(* source; the inputs are drawn so that every plane the code cuts at falls *)
(* on a cell boundary, which makes the boolean operations exact set        *)
(* operations.  Coordinates are the kernel's global coordinates.           *)
(***************************************************************************)
EXTENDS Integers, Sequences, FiniteSets, TLC

(***************************************************************************)
(* Bounds of the model.                                                    *)
(***************************************************************************)
MaxSizeZQuarters == 3
MaxPegLength == 6
NumSuffixes == 2

(***************************************************************************)
(* Constants of the program.                                               *)
(***************************************************************************)
SliderMaxMagnetDepth == 10
DefaultMagnetDiameter == 5
DefaultMagnetDepth == 3
DefaultPegDiameter == 4
CutterSize == 100
SecondaryHoleDiameter == 5
SecondaryHoleDepth == 3

\* A name that is not bound: the empty tuple; a bound pair is <<size_x, size_y>>.
Unbound == <<>>
DefaultPrefixes == <<"module1", "module2">>

(***************************************************************************)
(* Input domains.  Every value lies in the range of the slider that sets   *)
(* it (lines 68-76).  Sizes are multiples of 4 and split heights are even, *)
(* so that size/2, size/4, split_at/2 and 3*split_at/2 are whole numbers.  *)
(***************************************************************************)
SizesXY == {12}
SizesZ == {4 * q : q \in 2..MaxSizeZQuarters}
MagnetDepths == {DefaultMagnetDepth, SliderMaxMagnetDepth}
PegDiameters == {DefaultPegDiameter}
PegLengths == {2, MaxPegLength}
SplitHeights(size_z) == {s \in 0..size_z : s % 2 = 0}
GlobalSizes(size_x, size_y) ==
    {Unbound, <<size_x, size_y>>, <<size_x + 4, size_y + 8>>}
CustomPrefixes == <<"base", "lower", "upper">>

(***************************************************************************)
(* The grid of cells that can hold material: the base block and the peg.   *)
(***************************************************************************)
MaxOf(S) == CHOOSE m \in S : \A v \in S : v <= m
MinOf(S) == CHOOSE m \in S : \A v \in S : m <= v
Odd(n) == {v \in (0 - n)..n : v % 2 = 1}
Grid ==
    {<<x, y, z>> : x \in Odd(MaxOf(SizesXY) \div 2), y \in Odd(MaxOf(SizesXY) \div 2),
                   z \in (0 - (MaxOf(SizesZ) \div 2))..(MaxOf(SizesZ) + MaxPegLength - 1)}

(***************************************************************************)
(* Kernel primitives.                                                      *)
(***************************************************************************)
\* Workplane("XY").box(length, width, height).translate((0, 0, tz2 / 2)):
\* a box centred on the origin in all three axes, then moved up.
Box(length, width, height, tz2) ==
    {c \in Grid : /\ 2 * (c[1] - 1) >= 0 - length /\ 2 * (c[1] + 1) <= length
                  /\ 2 * (c[2] - 1) >= 0 - width  /\ 2 * (c[2] + 1) <= width
                  /\ 2 * c[3] >= tz2 - height /\ 2 * (c[3] + 1) <= tz2 + height}

\* A vertical cylinder of the given diameter about (cx, cy) between zlo and zhi.
Cylinder(diameter, cx, cy, zlo, zhi) ==
    {c \in Grid : /\ 4 * ((c[1] - cx) * (c[1] - cx) + (c[2] - cy) * (c[2] - cy))
                        <= diameter * diameter
                  /\ zlo <= c[3] /\ c[3] + 1 <= zhi}

Cut(a, b) == a \ b
Intersect(a, b) == a \cap b
Union(a, b) == a \cup b
Volume(s) == Cardinality(s)

\* The height of the face selected by faces(">Z").
TopZ(s) == MaxOf({c[3] + 1 : c \in s})
BottomZ(s) == MinOf({c[3] : c \in s})

\* .faces(">Z").workplane(...).center(cx, cy).hole(diameter, depth): the
\* solid with a cylinder bored down from its topmost face.
Hole(s, cx, cy, diameter, depth) ==
    Cut(s, Cylinder(diameter, cx, cy, TopZ(s) - depth, TopZ(s)))

create_3d_module_from_image(dims, diameter, depth) ==
    Hole(Box(dims[1], dims[2], dims[3], 0), 0, 0, diameter, depth)

VARIABLES
    dims, magnet_diameter, magnet_depth,    \* arguments of create_3d_module_from_image
    split_at, peg_diameter, peg_length,     \* arguments of split_module
    g_size,                                 \* module-level names size_x, size_y
    with_base, prefixes,                    \* arguments of export_stl_modules
    pc, err,
    base_module, lower_half, upper_half, peg, magnet_hole_pos, hole_result,
    paths, exported, files,
    peg_unioned, peg_subtracted, hole_attempts

vars == <<dims, magnet_diameter, magnet_depth, split_at, peg_diameter, peg_length,
          g_size, with_base, prefixes, pc, err, base_module, lower_half, upper_half,
          peg, magnet_hole_pos, hole_result, paths, exported, files,
          peg_unioned, peg_subtracted, hole_attempts>>

inputs == <<dims, magnet_diameter, magnet_depth, split_at, peg_diameter, peg_length,
            g_size, with_base, prefixes>>

None == "none"

Init ==
    /\ dims \in {<<x, y, z>> : x \in SizesXY, y \in SizesXY, z \in SizesZ}
    /\ magnet_diameter = DefaultMagnetDiameter
    /\ magnet_depth \in MagnetDepths
    /\ split_at \in SplitHeights(dims[3])
    /\ peg_diameter \in PegDiameters
    /\ peg_length \in PegLengths
    /\ g_size \in GlobalSizes(dims[1], dims[2])
    /\ with_base \in BOOLEAN
    /\ prefixes \in {DefaultPrefixes, CustomPrefixes}
    /\ pc = "build"
    /\ err = None
    /\ base_module = {}
    /\ lower_half = {}
    /\ upper_half = {}
    /\ peg = {}
    /\ magnet_hole_pos = Unbound
    /\ hole_result = {}
    /\ paths = <<>>
    /\ exported = <<>>
    /\ files = {<<DefaultPrefixes[1], 1>>}
    /\ peg_unioned = <<>>
    /\ peg_subtracted = <<>>
    /\ hole_attempts = 0

Build ==
    /\ pc = "build"
    /\ base_module' = create_3d_module_from_image(dims, magnet_diameter, magnet_depth)
    /\ pc' = "split_lower"
    /\ UNCHANGED <<inputs, err, lower_half, upper_half, peg, magnet_hole_pos,
                   hole_result, paths, exported, files, peg_unioned, peg_subtracted,
                   hole_attempts>>

(***************************************************************************)
(* split_module, statement by statement.                                   *)
(***************************************************************************)
\* Lines 23-27: module.cut(box above split_at).intersect(box of height 2*split_at).
LowerClip(module, s) ==
    Intersect(Cut(module, Box(CutterSize, CutterSize, CutterSize, 2 * s + CutterSize)),
              Box(CutterSize, CutterSize, 2 * s, s))

\* Lines 28-32: module.cut(box of height 2*split_at).intersect(box above split_at).
UpperClip(module, s) ==
    Intersect(Cut(module, Box(CutterSize, CutterSize, 2 * s, s)),
              Box(CutterSize, CutterSize, CutterSize, 2 * s + CutterSize))

\* Lines 35-40: circle(peg_diameter / 2).extrude(peg_length).translate((0, 0, split_at)).
PegSolid(s, diameter, length) == Cylinder(diameter, 0, 0, s, s + length)

\* What the kernel may do when asked for a box of height zero: refuse it, or
\* build a box without volume.
ZeroBoxRaises == BOOLEAN
\* What the face selector may do on a solid that has no faces: raise, or
\* select nothing and leave the hole without effect.
EmptySelectRaises == BOOLEAN

Fail(kind) ==
    /\ err' = kind
    /\ pc' = "failed"

SplitLower ==
    /\ pc = "split_lower"
    /\ \E raises \in ZeroBoxRaises :
         IF split_at = 0 /\ raises
         THEN /\ Fail("KernelError")
              /\ UNCHANGED lower_half
         ELSE /\ lower_half' = LowerClip(base_module, split_at)
              /\ pc' = "split_upper"
              /\ UNCHANGED err
    /\ UNCHANGED <<inputs, base_module, upper_half, peg, magnet_hole_pos, hole_result,
                   paths, exported, files, peg_unioned, peg_subtracted, hole_attempts>>

SplitUpper ==
    /\ pc = "split_upper"
    /\ upper_half' = UpperClip(base_module, split_at)
    /\ pc' = "make_peg"
    /\ UNCHANGED <<inputs, err, base_module, lower_half, peg, magnet_hole_pos,
                   hole_result, paths, exported, files, peg_unioned, peg_subtracted,
                   hole_attempts>>

MakePeg ==
    /\ pc = "make_peg"
    /\ peg' = PegSolid(split_at, peg_diameter, peg_length)
    /\ pc' = "union_peg"
    /\ UNCHANGED <<inputs, err, base_module, lower_half, upper_half, magnet_hole_pos,
                   hole_result, paths, exported, files, peg_unioned, peg_subtracted,
                   hole_attempts>>

\* Line 42: lower_half = lower_half.union(peg)
UnionPeg ==
    /\ pc = "union_peg"
    /\ lower_half' = Union(lower_half, peg)
    /\ peg_unioned' = <<peg>>
    /\ pc' = "cut_peg"
    /\ UNCHANGED <<inputs, err, base_module, upper_half, peg, magnet_hole_pos,
                   hole_result, paths, exported, files, peg_subtracted, hole_attempts>>

\* CutPeg with a socket built on its own, one millimetre deeper than the peg.
CutPegDeeperSocket ==
    /\ pc = "cut_peg"
    /\ upper_half' = Cut(upper_half, PegSolid(split_at, peg_diameter, peg_length + 1))
    /\ peg_subtracted' = <<PegSolid(split_at, peg_diameter, peg_length + 1)>>
    /\ pc' = "hole_pos"
    /\ UNCHANGED <<inputs, err, base_module, lower_half, peg, magnet_hole_pos,
                   hole_result, paths, exported, files, peg_unioned, hole_attempts>>

\* Line 43: upper_half = upper_half.cut(peg)
CutPeg ==
    /\ pc = "cut_peg"
    /\ upper_half' = Cut(upper_half, peg)
    /\ peg_subtracted' = <<peg>>
    /\ pc' = "hole_pos"
    /\ UNCHANGED <<inputs, err, base_module, lower_half, peg, magnet_hole_pos,
                   hole_result, paths, exported, files, peg_unioned, hole_attempts>>

\* Line 46: magnet_hole_pos = (size_x/4, size_y/4), with size_x and size_y
\* looked up in the module's namespace.
HolePos ==
    /\ pc = "hole_pos"
    /\ IF g_size = Unbound
       THEN /\ Fail("NameError")
            /\ UNCHANGED magnet_hole_pos
       ELSE /\ magnet_hole_pos' = <<g_size[1] \div 4, g_size[2] \div 4>>
            /\ pc' = "hole_lower"
            /\ UNCHANGED err
    /\ UNCHANGED <<inputs, base_module, lower_half, upper_half, peg, hole_result,
                   paths, exported, files, peg_unioned, peg_subtracted, hole_attempts>>

\* Lines 47-48, one iteration: the value of
\*   half.faces(">Z").workplane().center(*magnet_hole_pos).hole(5, 3)
\* which the loop computes and drops.
SecondaryHole(half, pos) ==
    Hole(half, pos[1], pos[2], SecondaryHoleDiameter, SecondaryHoleDepth)

HoleIteration(half, next) ==
    /\ hole_attempts' = hole_attempts + 1
    /\ \E raises \in EmptySelectRaises :
         IF half = {}
         THEN IF raises
              THEN /\ Fail("KernelError")
                   /\ UNCHANGED hole_result
              ELSE /\ hole_result' = {}
                   /\ pc' = next
                   /\ UNCHANGED err
         ELSE /\ hole_result' = SecondaryHole(half, magnet_hole_pos)
              /\ pc' = next
              /\ UNCHANGED err
    /\ UNCHANGED <<inputs, base_module, lower_half, upper_half, peg, magnet_hole_pos,
                   paths, exported, files, peg_unioned, peg_subtracted>>

HoleLower ==
    /\ pc = "hole_lower"
    /\ HoleIteration(lower_half, "hole_upper")

\* The second iteration; line 50 then returns lower_half, upper_half.
HoleUpper ==
    /\ pc = "hole_upper"
    /\ HoleIteration(upper_half, "export")

(***************************************************************************)
(* export_stl_modules                                                      *)
(***************************************************************************)
\* The first argument: the UI passes [lower_half, upper_half].
Modules ==
    IF with_base THEN <<base_module, lower_half, upper_half>>
                 ELSE <<lower_half, upper_half>>

\* zip(modules, prefixes) stops with the shorter sequence.
ZipLen(a, b) == IF Len(a) <= Len(b) THEN Len(a) ELSE Len(b)

\* Lines 56-59, one iteration: mkstemp creates a file whose name was not in
\* use; the solid is written to it; the path is appended.
ExportOne ==
    /\ pc = "export"
    /\ Len(paths) < ZipLen(Modules, prefixes)
    /\ LET i == Len(paths) + 1 IN
       \E r \in 1..NumSuffixes :
          /\ <<prefixes[i], r>> \notin files
          /\ files' = files \cup {<<prefixes[i], r>>}
          /\ paths' = Append(paths, <<prefixes[i], r>>)
          /\ exported' = Append(exported, Modules[i])
    /\ UNCHANGED <<inputs, pc, err, base_module, lower_half, upper_half, peg,
                   magnet_hole_pos, hole_result, peg_unioned, peg_subtracted,
                   hole_attempts>>

\* Line 60.
ExportReturn ==
    /\ pc = "export"
    /\ Len(paths) = ZipLen(Modules, prefixes)
    /\ pc' = "done"
    /\ UNCHANGED <<inputs, err, base_module, lower_half, upper_half, peg,
                   magnet_hole_pos, hole_result, paths, exported, files, peg_unioned,
                   peg_subtracted, hole_attempts>>

Next ==
    \/ Build
    \/ SplitLower
    \/ SplitUpper
    \/ MakePeg
    \/ UnionPeg
    \/ CutPeg
    \/ HolePos
    \/ HoleLower
    \/ HoleUpper
    \/ ExportOne
    \/ ExportReturn

Spec == Init /\ [][Next]_vars

(***************************************************************************)
(* split_module as a whole: the outcomes <<err, lower, upper>> a call can  *)
(* end in, given its arguments and the binding g of size_x, size_y in the  *)
(* module's namespace.  A call that raises returns no halves.              *)
(***************************************************************************)
SplitOutcomes(module, s, diameter, length, g) ==
    LET p == PegSolid(s, diameter, length)
        lower == Union(LowerClip(module, s), p)
        upper == Cut(UpperClip(module, s), p)
        raised(kind) == <<kind, {}, {}>>
        after_peg ==
            IF g = Unbound THEN {raised("NameError")}
            ELSE IF upper = {} THEN {raised("KernelError"), <<None, lower, upper>>}
            ELSE {<<None, lower, upper>>}
    IN  IF s = 0 THEN {raised("KernelError")} \cup after_peg ELSE after_peg

SplitFinished == pc \in {"failed", "export", "done"}
SplitReturned == pc \in {"export", "done"}
Outcome == <<err, IF SplitReturned THEN lower_half ELSE {},
                  IF SplitReturned THEN upper_half ELSE {}>>

\* The statement-by-statement actions and SplitOutcomes describe the same function.
SplitOutcomeConsistent ==
    SplitFinished =>
        Outcome \in SplitOutcomes(base_module, split_at, peg_diameter, peg_length, g_size)

TypeOK ==
    /\ pc \in {"build", "split_lower", "split_upper", "make_peg", "union_peg", "cut_peg",
               "hole_pos", "hole_lower", "hole_upper", "export", "done", "failed"}
    /\ err \in {None, "KernelError", "NameError"}
    /\ base_module \subseteq Grid /\ lower_half \subseteq Grid /\ upper_half \subseteq Grid
    /\ peg \subseteq Grid /\ hole_result \subseteq Grid
    /\ Len(paths) = Len(exported)
    /\ hole_attempts \in 0..2

(***************************************************************************)
(* Properties                                                              *)
(***************************************************************************)
size_x == dims[1]
size_y == dims[2]
size_z == dims[3]
ValidSplit == 0 < split_at /\ split_at < size_z
Below(s, z) == {c \in s : c[3] + 1 <= z}
Above(s, z) == {c \in s : c[3] >= z}
HalvesComputed == pc \in {"make_peg", "union_peg"}

\* C1: for split_at strictly inside (0, size_z) the two halves computed
\* before the peg is added partition base at the split plane: lower is the
\* part of base up to split_at, upper the part above it, and the two volumes
\* sum to the volume of base.
C1_HalvesPartitionBase ==
    (HalvesComputed /\ ValidSplit) =>
        /\ lower_half = Below(base_module, split_at)
        /\ upper_half = Above(base_module, split_at)
        /\ Volume(lower_half) + Volume(upper_half) = Volume(base_module)

\* The solid s is not empty and spans z from lo to hi, measured from origin.
SpansZ(s, origin, lo, hi) ==
    /\ s # {}
    /\ BottomZ(s) = origin + lo
    /\ TopZ(s) = origin + hi

\* C2: in one reference frame (z measured from the kernel's origin, or from
\* the bottom of base) the returned lower half spans z from 0 to
\* split_at + peg_length and the returned upper half from split_at to size_z.
C2_ReturnedHalvesSpan ==
    (SplitReturned /\ ValidSplit) =>
        \E origin \in {0, BottomZ(base_module)} :
            /\ SpansZ(lower_half, origin, 0, split_at + peg_length)
            /\ SpansZ(upper_half, origin, split_at, size_z)

\* The solid with the secondary socket cut into its +Z face at (size_x/4, size_y/4).
WithSecondarySocket(s) ==
    IF s = {} THEN {} ELSE SecondaryHole(s, <<size_x \div 4, size_y \div 4>>)

\* C3: each half a valid split returns is the pegged / socketed half with the
\* secondary magnet socket (as large as the one the code bores) cut into its
\* +Z face at (size_x/4, size_y/4).
C3_ReturnedHalvesCarrySocket ==
    (SplitReturned /\ ValidSplit /\ upper_half # {}) =>
        LET p == PegSolid(split_at, peg_diameter, peg_length) IN
        /\ lower_half = WithSecondarySocket(Union(LowerClip(base_module, split_at), p))
        /\ upper_half = WithSecondarySocket(Cut(UpperClip(base_module, split_at), p))

\* C4: a call of split with split_at not strictly inside (0, size_z) fails
\* with InvalidSplit and returns no halves.
C4_InvalidSplitRejected ==
    (SplitFinished /\ ~ValidSplit) => (pc = "failed" /\ err = "InvalidSplit")

\* C5: with magnet_depth >= size_z, build_base fails with InvalidDimension
\* before the box / hole cut executes: no solid is ever built.
C5_DeepSocketRejected ==
    (magnet_depth >= size_z) =>
        /\ pc \in {"build", "failed"}
        /\ pc = "failed" => err = "InvalidDimension"
        /\ base_module = {}

\* The parameter set of the UI's own run: the block's sizes are the
\* module-level size_x, size_y, the split is at size_z / 2, and the two
\* halves are exported under the default name hints.
Pipeline ==
    /\ g_size = <<size_x, size_y>>
    /\ 2 * split_at = size_z
    /\ ~with_base
    /\ prefixes = DefaultPrefixes
Admissible ==
    /\ magnet_depth < size_z
    /\ magnet_diameter < size_x /\ magnet_diameter < size_y
    /\ peg_length <= split_at /\ peg_length <= size_z - split_at

\* C6: a run of the pipeline on admissible parameters ends either with both
\* exported meshes coming from non-empty halves or with TessellationFailure.
C6_NoSilentEmptyMesh ==
    (Pipeline /\ Admissible /\ pc \in {"done", "failed"}) =>
        \/ pc = "failed" /\ err = "TessellationFailure"
        \/ pc = "done" /\ Len(exported) = 2 /\ \A i \in 1..2 : exported[i] # {}

\* C7: the outcome of split is determined by its arguments alone: the outcome
\* of a call with a valid split_at is an outcome of the same call under every other binding of the
\* module-level size_x, size_y, the unbound one included.
C7_SplitIgnoresGlobals ==
    (SplitFinished /\ ValidSplit) =>
        \A g \in GlobalSizes(size_x, size_y) :
            Outcome \in SplitOutcomes(base_module, split_at, peg_diameter, peg_length, g)

\* C8: export returns one path per input solid, in input order, result i
\* being the mesh of solid i named from name hint i, with distinct paths
\* (stated for the exports of non-empty solids that a valid split produced).
C8_OnePathPerSolid ==
    (pc = "done" /\ ValidSplit /\ \A i \in 1..Len(Modules) : Modules[i] # {}) =>
        /\ Len(paths) = Len(Modules)
        /\ \A i \in 1..Len(paths) :
              /\ exported[i] = Modules[i]
              /\ i <= Len(prefixes) /\ paths[i][1] = prefixes[i]
        /\ \A i, j \in 1..Len(paths) : i # j => paths[i] # paths[j]

\* C9: for a valid split and a peg no longer than the upper half is thick,
\* the peg cylinder lies inside the upper half, so that cutting it from
\* upper removes exactly the peg's region.
C9_PegInsideUpper ==
    (ValidSplit /\ peg_length <= size_z - split_at) =>
        /\ pc = "cut_peg" => peg \subseteq upper_half
        /\ pc = "hole_pos" => UpperClip(base_module, split_at) \ upper_half = peg

\* C10: the peg unioned into lower and the peg subtracted from upper are the
\* same cylinder, the one of the requested diameter and length at split_at,
\* and both operations have happened before a secondary socket cut is tried.
C10_SamePegBeforeHoles ==
    /\ peg_subtracted # <<>> =>
          /\ peg_unioned = peg_subtracted
          /\ peg_subtracted = <<PegSolid(split_at, peg_diameter, peg_length)>>
    /\ hole_attempts > 0 => (peg_unioned # <<>> /\ peg_subtracted # <<>>)

\* A run in which both halves exist, carry the peg and the socket, and both
\* secondary cuts were tried.
C10_Witness ==
    /\ pc = "export"
    /\ ValidSplit
    /\ hole_attempts = 2
    /\ peg_unioned # <<>> /\ peg_unioned[1] # {}
    /\ peg_unioned[1] \subseteq lower_half
    /\ upper_half # {}
====
